---- MODULE Spec2Model ----
(***************************************************************************)
(* Model of blitz's Blender post-processing script (src/main.py).          *)
(*                                                                         *)
(* The script is a linear sequence of calls into the host application.    *)
(* The model keeps the script's own variables (argv, cam_loc, cam_rot,     *)
(* the lists of loaded objects), the part of the host state the script     *)
(* reads and writes (materials, keyframes, camera, scene flags, saved      *)
(* files), the position of the script (pc) and the trace of host calls.    *)
(*                                                                         *)
(* Strings are TLA+ strings; Python's str operations (in, endswith,        *)
(* split, <) are computed character by character with SubSeq.              *)
(* Reals are fixed point: lengths in tenths, angles in 1e-4 rad.           *)
(***************************************************************************)
EXTENDS Integers, Sequences, FiniteSets, TLC

(***************************************************************************)
(* Python str and list primitives                                          *)
(***************************************************************************)

\* characters in ascending code-point order (the ones the inputs use)
Alphabet == ",-./0123456789=BPS_abcdefghijklmnopqrstuvwxyz"

Ord(c) == CHOOSE i \in 1..Len(Alphabet) : SubSeq(Alphabet, i, i) = c

Range(s) == {s[i] : i \in 1..Len(s)}

\* sub in s
Contains(s, sub) ==
  \E i \in 1..(Len(s) - Len(sub) + 1) : SubSeq(s, i, i + Len(sub) - 1) = sub

\* s.endswith(suf)
EndsWith(s, suf) ==
  /\ Len(s) >= Len(suf)
  /\ SubSeq(s, Len(s) - Len(suf) + 1, Len(s)) = suf

\* s.startswith(pre)
StartsWith(s, pre) ==
  /\ Len(s) >= Len(pre)
  /\ SubSeq(s, 1, Len(pre)) = pre

\* first index at which sep occurs in s, 0 when it does not
FindStr(s, sep) ==
  IF Contains(s, sep)
    THEN CHOOSE i \in 1..(Len(s) - Len(sep) + 1) :
           /\ SubSeq(s, i, i + Len(sep) - 1) = sep
           /\ \A j \in 1..(i - 1) : SubSeq(s, j, j + Len(sep) - 1) # sep
    ELSE 0

\* s.split(sep): always at least one piece
RECURSIVE Split(_, _)
Split(s, sep) ==
  LET i == FindStr(s, sep) IN
  IF i = 0 THEN <<s>>
  ELSE <<SubSeq(s, 1, i - 1)>> \o Split(SubSeq(s, i + Len(sep), Len(s)), sep)

\* a < b on str: code points, left to right, a proper prefix is smaller
RECURSIVE StrLess(_, _)
StrLess(a, b) ==
  IF Len(b) = 0 THEN FALSE
  ELSE IF Len(a) = 0 THEN TRUE
  ELSE IF SubSeq(a, 1, 1) # SubSeq(b, 1, 1)
    THEN Ord(SubSeq(a, 1, 1)) < Ord(SubSeq(b, 1, 1))
  ELSE StrLess(SubSeq(a, 2, Len(a)), SubSeq(b, 2, Len(b)))

\* insert x into the sorted list s, after the elements that are not greater
RECURSIVE Insert(_, _)
Insert(s, x) ==
  IF s = <<>> THEN <<x>>
  ELSE IF StrLess(x, s[1]) THEN <<x>> \o s
  ELSE <<s[1]>> \o Insert(Tail(s), x)

\* sorted(s) on a list of str
RECURSIVE Sorted(_)
Sorted(s) ==
  IF s = <<>> THEN <<>>
  ELSE Insert(Sorted(SubSeq(s, 1, Len(s) - 1)), s[Len(s)])

\* list(filter(lambda p: p.endswith(suf), s))
RECURSIVE FilterSuffix(_, _)
FilterSuffix(s, suf) ==
  IF s = <<>> THEN <<>>
  ELSE IF EndsWith(s[1], suf) THEN <<s[1]>> \o FilterSuffix(Tail(s), suf)
  ELSE FilterSuffix(Tail(s), suf)

\* os.path.join(a, b) on POSIX
PathJoin(a, b) ==
  IF StartsWith(b, "/") THEN b
  ELSE IF a = "" \/ EndsWith(a, "/") THEN a \o b
  ELSE a \o "/" \o b

\* list.index(x): first position of x, counted from 0
IndexOf(s, x) == (CHOOSE i \in 1..Len(s) : s[i] = x /\ \A j \in 1..(i - 1) : s[j] # x) - 1

\* float(s) for the decimal notations the inputs use: an optional sign, digits,
\* an optional fraction of one digit. The value is in tenths.
IsDigits(s) ==
  \A i \in 1..Len(s) : SubSeq(s, i, i) \in
    {"0", "1", "2", "3", "4", "5", "6", "7", "8", "9"}

RECURSIVE DigitsValue(_)
DigitsValue(s) ==
  IF Len(s) = 0 THEN 0
  ELSE DigitsValue(SubSeq(s, 1, Len(s) - 1)) * 10
       + (Ord(SubSeq(s, Len(s), Len(s))) - Ord("0"))

ParseFloat(s) ==
  LET neg   == StartsWith(s, "-")
      body  == IF neg THEN SubSeq(s, 2, Len(s)) ELSE s
      parts == Split(body, ".")
      ip    == parts[1]
      fp    == IF Len(parts) = 2 THEN parts[2] ELSE ""
      good  == /\ Len(parts) <= 2
               /\ IsDigits(ip) /\ IsDigits(fp)
               /\ Len(ip) + Len(fp) > 0
               /\ Len(fp) <= 1
      mag   == DigitsValue(ip) * 10 + DigitsValue(fp)
  IN IF good THEN [ok |-> TRUE, val |-> IF neg THEN 0 - mag ELSE mag]
     ELSE [ok |-> FALSE, val |-> 0]

\* faulty variant of Radians: the degrees are passed on unconverted
RadiansIdentity(d) == d

\* math.radians(d): d in tenths of a degree, the result in 1e-4 rad
Radians(d) ==
  LET n == d * 31416
  IN IF n >= 0 THEN (n + 900) \div 1800 ELSE 0 - ((900 - n) \div 1800)

(***************************************************************************)
(* Inputs: the command line, the file system, the host's material table    *)
(***************************************************************************)

\* the most entries the simulation output directory holds
MaxEntries == 3

\* names an upstream run leaves in its output directory
RootPool ==
  { "simulation_output_0001.obj", "simulation_output_0000.obj",
    "simulation_output_0010.obj", "notes.txt" }

\* names the assets directory may hold
AssetPool == { "backdrop.obj", "light.obj", "backdrop2.obj" }

\* the root directory that exists; every other name does not
ExistingRoot == "sim"

LocOpts == { "", "--cam_loc=1,2,3", "--cam_loc=-4,0.5,6", "--cam_loc" }

RotOpts == { "", "--cam_rot=90,0,180", "--cam_rot=x,0,0" }

Opt(o) == IF o = "" THEN <<>> ELSE <<o>>

\* blender [-b] -P main.py [-- [root_dir]] [options]
ArgvSet ==
  LET head(b) == <<"blender">> \o (IF b THEN <<"-b">> ELSE <<>>) \o <<"-P", "main.py">>
  IN UNION { UNION { UNION {
       { head(b) \o Opt(l) \o Opt(r),
         head(b) \o Opt(l) \o Opt(r) \o <<"--">>,
         head(b) \o <<"--", "gone">> \o Opt(l) \o Opt(r),
         head(b) \o <<"--", ExistingRoot>> \o Opt(l) \o Opt(r) }
       : r \in RotOpts } : l \in LocOpts } : b \in BOOLEAN }

\* all the orders os.listdir may give the names of a directory in
RECURSIVE Perms(_)
Perms(S) ==
  IF S = {} THEN { <<>> }
  ELSE UNION { { <<e>> \o p : p \in Perms(S \ {e}) } : e \in S }

\* axis-aligned boxes (lo, hi) of an imported mesh, in tenths
BoxSet ==
  { << <<0, 0, 0>>, <<20, 40, 10>> >>,
    << <<-10, 10, 30>>, <<-10, 10, 30>> >> }

\* object scale factors the host may report dimensions with
ScaleSet == { 1, 2 }

\* bound_box: the eight corners, in the host's order
Corners(lo, hi) ==
  << <<lo[1], lo[2], lo[3]>>, <<lo[1], lo[2], hi[3]>>,
     <<lo[1], hi[2], hi[3]>>, <<lo[1], hi[2], lo[3]>>,
     <<hi[1], lo[2], lo[3]>>, <<hi[1], lo[2], hi[3]>>,
     <<hi[1], hi[2], hi[3]>>, <<hi[1], hi[2], lo[3]>> >>

\* node graphs and materials of the host
Node(t, v) == [type |-> t, default_value |-> v]

DefaultNodes ==
  << Node("ShaderNodeBsdfPrincipled", 0), Node("ShaderNodeOutputMaterial", 0) >>

Material(i, n, nodes, links) ==
  [id |-> i, name |-> n, use_nodes |-> nodes # <<>>, nodes |-> nodes, links |-> links]

\* material tables a session may start from: names are unique in a table
StaleHair ==
  Material(1, "Hair", DefaultNodes \o <<Node("ShaderNodeEmission", 1)>>, {<<3, 2>>})

StaleLight == Material(2, "Light", DefaultNodes, {<<1, 2>>})

OtherMat == Material(3, "Backdrop", DefaultNodes, {<<1, 2>>})

\* an identity no data block of the table has
FreshId(mats) ==
  1 + (CHOOSE i \in {m.id : m \in mats} \cup {0} : \A m \in mats : m.id <= i)

MaterialTables ==
  { {}, {OtherMat}, {StaleHair, OtherMat}, {StaleHair, StaleLight, OtherMat} }

(***************************************************************************)
(* State                                                                   *)
(***************************************************************************)

VARIABLES
  argv,        \* sys.argv
  fsRoot,      \* the names in the existing root directory
  pc,          \* the statement of the script that runs next
  exc,         \* "" or the exception that ended the run ("SystemExit" for exit())
  exit_code,   \* the status exit() was called with, -1 when it was not
  usage,       \* whether help() has printed the usage text
  cam_loc,     \* the script's cam_loc
  cam_rot,     \* the script's cam_rot
  paths,       \* root_dir_obj_paths
  objs,        \* root_dir_objs
  assetObjs,   \* asset_objs
  keyframes,   \* the keyframes inserted so far
  scene,       \* bpy.context.scene: frame range, current frame, camera, render flags
  materials,   \* bpy.data.materials
  nextId,      \* the identity the host gives the next data block
  camObj,      \* the camera objects created
  saved,       \* the files written by save_as_mainfile, in order
  trace,       \* the steps of the script completed so far, in order
  calls        \* how often each host operation has been called

vars ==
  << argv, fsRoot, pc, exc, exit_code, usage, cam_loc, cam_rot, paths, objs,
     assetObjs, keyframes, scene, materials, nextId, camObj, saved, trace, calls >>

NoCalls ==
  [ scene_new |-> 0, import_obj |-> 0, keyframe_insert |-> 0,
    materials_new |-> 0, cameras_new |-> 0, save |-> 0 ]

Scene0 ==
  [ frame_start |-> 1, frame_end |-> 250, frame_current |-> 1,
    camera |-> 0, engine |-> "BLENDER_EEVEE", device |-> "CPU" ]

Subsets(S, n) == { T \in SUBSET S : Cardinality(T) <= n }

Init ==
  /\ argv \in ArgvSet
  /\ fsRoot \in Subsets(RootPool, MaxEntries)
  /\ materials \in { {}, {StaleHair, StaleLight, OtherMat} }
  /\ nextId = FreshId(materials)
  /\ pc = "start"
  /\ exc = ""
  /\ exit_code = -1
  /\ usage = FALSE
  /\ cam_loc = <<>>
  /\ cam_rot = <<>>
  /\ paths = <<>>
  /\ objs = <<>>
  /\ assetObjs = <<>>
  /\ keyframes = {}
  /\ scene = Scene0
  /\ camObj = <<>>
  /\ saved = <<>>
  /\ trace = <<>>
  /\ calls = NoCalls

\* the variables of the host's data that a step of the script may leave alone
hostVars == << objs, assetObjs, keyframes, scene, materials, nextId, camObj, saved, calls >>

\* an uncaught exception e ends the run at the current statement
Raise(e) ==
  /\ exc' = e
  /\ pc' = "raised"

(***************************************************************************)
(* __main__, lines 300-312: defaults and the separator checks              *)
(***************************************************************************)

\* faulty variant of HelpAndExit: the usage is printed and the script goes on
HelpWithoutExit ==
  /\ usage' = TRUE
  /\ pc' = "parse"
  /\ UNCHANGED << exit_code, exc >>

\* help() then exit(1)
HelpAndExit ==
  /\ usage' = TRUE
  /\ exit_code' = 1
  /\ exc' = "SystemExit"
  /\ pc' = "exited"

\* the condition of line 304
NoSeparator(args) == "--" \notin Range(args)

CheckSeparator ==
  /\ pc = "start"
  /\ cam_loc' = <<-320, 1615, 730>>
  /\ cam_rot' = <<Radians(750), 0, Radians(1800)>>
  /\ IF NoSeparator(argv)
       THEN HelpAndExit
       ELSE IF IndexOf(argv, "--") = Len(argv)
         THEN HelpAndExit
         ELSE /\ pc' = "parse"
              /\ UNCHANGED << usage, exit_code, exc >>
  /\ trace' = trace
  /\ UNCHANGED << argv, fsRoot, paths, hostVars >>

(***************************************************************************)
(* __main__, lines 314-321: the option loop                                *)
(***************************************************************************)

\* tuple(map(float, s.split(","))): the values, or ok = FALSE on a ValueError
ParseTuple(s) ==
  LET parts == Split(s, ",")
      fs    == [i \in 1..Len(parts) |-> ParseFloat(parts[i])]
  IN [ ok  |-> \A i \in 1..Len(parts) : fs[i].ok,
       val |-> [i \in 1..Len(parts) |-> fs[i].val] ]

\* one iteration of the loop over sys.argv on the state st = [loc, rot, exc]
OptStep(st, opt) ==
  LET parts == Split(opt, "=")
      afterLoc ==
        IF ~Contains(opt, "--cam_loc") THEN st
        ELSE IF Len(parts) < 2 THEN [st EXCEPT !.exc = "IndexError"]
        ELSE IF ~ParseTuple(parts[2]).ok THEN [st EXCEPT !.exc = "ValueError"]
        ELSE [st EXCEPT !.loc = ParseTuple(parts[2]).val]
  IN IF afterLoc.exc # "" THEN afterLoc
     ELSE IF ~Contains(opt, "--cam_rot") THEN afterLoc
     ELSE IF Len(parts) < 2 THEN [afterLoc EXCEPT !.exc = "IndexError"]
     ELSE IF ~ParseTuple(parts[2]).ok THEN [afterLoc EXCEPT !.exc = "ValueError"]
     ELSE [afterLoc EXCEPT !.rot =
             [i \in 1..Len(ParseTuple(parts[2]).val) |->
                Radians(ParseTuple(parts[2]).val[i])]]

RECURSIVE OptLoop(_, _)
OptLoop(st, args) ==
  IF args = <<>> \/ st.exc # "" THEN st
  ELSE OptLoop(OptStep(st, args[1]), Tail(args))

ParseOptions ==
  /\ pc = "parse"
  /\ LET st == OptLoop([loc |-> cam_loc, rot |-> cam_rot, exc |-> ""], argv)
     IN /\ cam_loc' = st.loc
        /\ cam_rot' = st.rot
        /\ IF st.exc # ""
             THEN Raise(st.exc) /\ trace' = trace
             ELSE /\ pc' = "scene"
                  /\ exc' = exc
                  /\ trace' = Append(trace, "options")
  /\ UNCHANGED << argv, fsRoot, exit_code, usage, paths, hostVars >>

(***************************************************************************)
(* __main__, line 323: bpy.ops.scene.new()                                 *)
(***************************************************************************)

NewScene ==
  /\ pc = "scene"
  /\ calls' = [calls EXCEPT !.scene_new = @ + 1]
  /\ scene' = Scene0
  /\ pc' = "fetch"
  /\ trace' = Append(trace, "scene")
  /\ UNCHANGED << argv, fsRoot, exc, exit_code, usage, cam_loc, cam_rot, paths,
                  objs, assetObjs, keyframes, materials, nextId, camObj, saved >>

(***************************************************************************)
(* fetch_obj_file_paths, lines 46-71, called from lines 324-326            *)
(***************************************************************************)

\* os.path.exists(root_dir)
PathExists(root_dir) == root_dir = ExistingRoot

\* faulty variant of FetchObjFilePaths: the names are not sorted
FetchUnsorted(root_dir, listing) ==
  LET names == FilterSuffix(listing, ".obj")
  IN [i \in 1..Len(names) |-> PathJoin(root_dir, names[i])]

\* lines 61-71 on the result of os.listdir(root_dir)
FetchObjFilePaths(root_dir, listing) ==
  LET names == Sorted(FilterSuffix(listing, ".obj"))
  IN [i \in 1..Len(names) |-> PathJoin(root_dir, names[i])]

\* faulty variant of Fetch: lines 57-58 are missing, so os.listdir meets the
\* missing directory
FetchUnchecked ==
  /\ pc = "fetch"
  /\ LET at == IndexOf(argv, "--") + 2
     IN IF at > Len(argv)
          THEN Raise("IndexError") /\ UNCHANGED << paths, trace >>
          ELSE IF ~PathExists(argv[at])
            THEN Raise("FileNotFoundError") /\ UNCHANGED << paths, trace >>
            ELSE \E listing \in Perms(fsRoot) :
                   /\ paths' = FetchObjFilePaths(argv[at], listing)
                   /\ pc' = "load"
                   /\ exc' = exc
                   /\ trace' = Append(trace, "fetch")
  /\ UNCHANGED << argv, fsRoot, exit_code, usage, cam_loc, cam_rot, hostVars >>

Fetch ==
  /\ pc = "fetch"
  /\ LET at == IndexOf(argv, "--") + 2
     IN IF at > Len(argv)
          THEN Raise("IndexError") /\ UNCHANGED << paths, trace >>
          ELSE IF ~PathExists(argv[at])
            THEN Raise("RuntimeError") /\ UNCHANGED << paths, trace >>
            ELSE \E listing \in Perms(fsRoot) :
                   /\ paths' = FetchObjFilePaths(argv[at], listing)
                   /\ pc' = "load"
                   /\ exc' = exc
                   /\ trace' = Append(trace, "fetch")
  /\ UNCHANGED << argv, fsRoot, exit_code, usage, cam_loc, cam_rot, hostVars >>

(***************************************************************************)
(* load_obj_files, lines 117-149                                           *)
(***************************************************************************)

RECURSIVE SeqMax(_)
SeqMax(s) ==
  IF Len(s) = 1 THEN s[1]
  ELSE IF s[1] >= SeqMax(Tail(s)) THEN s[1] ELSE SeqMax(Tail(s))

RECURSIVE SeqMin(_)
SeqMin(s) ==
  IF Len(s) = 1 THEN s[1]
  ELSE IF s[1] <= SeqMin(Tail(s)) THEN s[1] ELSE SeqMin(Tail(s))

\* max - min of coordinate k over the corner points bb (lines 156-166, 185-195)
Extent(bb, k) ==
  LET pts == [i \in 1..Len(bb) |-> bb[i][k]]
  IN SeqMax(pts) - SeqMin(pts)

\* the object the importer leaves selected, renamed by lines 145-147; the host
\* reports its dimensions as the extents of its box times its scale
ImportedObject(p, box, sc) ==
  LET bb   == Corners(box[1], box[2])
      name == Split(p, ".obj")[1]
  IN [ name          |-> name,
       data_name     |-> name,
       bound_box     |-> bb,
       dimensions    |-> <<Extent(bb, 1) * sc, Extent(bb, 2) * sc, Extent(bb, 3) * sc>>,
       location      |-> <<0, 0, 0>>,
       hide_viewport |-> FALSE,
       hide_render   |-> FALSE,
       material_slots |-> <<0>> ]

LoadObjFiles(obj_file_paths, box, sc) ==
  [i \in 1..Len(obj_file_paths) |-> ImportedObject(obj_file_paths[i], box, sc)]

LoadObjs ==
  /\ pc = "load"
  /\ \E box \in BoxSet, sc \in ScaleSet :
       objs' = LoadObjFiles(paths, box, sc)
  /\ calls' = [calls EXCEPT !.import_obj = @ + Len(paths)]
  /\ pc' = "anim"
  /\ trace' = Append(trace, "load")
  /\ UNCHANGED << argv, fsRoot, exc, exit_code, usage, cam_loc, cam_rot, paths,
                  assetObjs, keyframes, scene, materials, nextId, camObj, saved >>

(***************************************************************************)
(* The host's material table and node graphs                               *)
(***************************************************************************)

\* bpy.data.materials.get(name): the materials of that name (none or one)
MaterialsGet(mats, name) == { m \in mats : m.name = name }

\* faulty variant of MaterialsRemove: the old material is not deleted
MaterialsRemoveNothing(mats, old) == mats

\* bpy.data.materials.remove(m) for each m of old
MaterialsRemove(mats, old) == mats \ old

\* the name the host gives a new data block: the name asked for, or the
\* first of name.001, name.002, ... that is free
UniqueName(mats, name) ==
  LET taken(n) == \E m \in mats : m.name = n
      alt(k)   == name \o ".00" \o SubSeq("123456789", k, k)
  IN IF ~taken(name) THEN name
     ELSE alt(CHOOSE k \in 1..9 : ~taken(alt(k)) /\ \A j \in 1..(k - 1) : taken(alt(j)))

\* bpy.data.materials.new(name=name): no node graph yet
MaterialsNew(mats, id, name) == Material(id, UniqueName(mats, name), <<>>, {})

\* m.use_nodes = True: the host builds its default graph
UseNodes(m) == [m EXCEPT !.use_nodes = TRUE, !.nodes = DefaultNodes, !.links = {<<1, 2>>}]

\* for n in m.node_tree.nodes: m.node_tree.nodes.remove(n)
ClearNodes(m) == [m EXCEPT !.nodes = <<>>, !.links = {}]

\* m.node_tree.nodes.new(type)
NodesNew(m, node) == [m EXCEPT !.nodes = Append(@, node)]

\* m.node_tree.links.new(from.outputs[0], to.inputs[0]), nodes named by position
LinksNew(m, from, to) == [m EXCEPT !.links = @ \cup {<<from, to>>}]

\* lines 88-109: the material table after the "Hair" material is rebuilt
HairTable(mats, id) ==
  LET kept == MaterialsRemove(mats, MaterialsGet(mats, "Hair"))
      m0   == ClearNodes(UseNodes(MaterialsNew(kept, id, "Hair")))
      m1   == NodesNew(m0, Node("ShaderNodeOutputMaterial", 0))
      m2   == NodesNew(m1, Node("ShaderNodeBsdfHairPrincipled", 0))
  IN kept \cup { LinksNew(m2, 2, 1) }

\* lines 260-285: the material table after the "Light" material is rebuilt
LightTable(mats, id) ==
  LET kept == MaterialsRemove(mats, MaterialsGet(mats, "Light"))
      m0   == ClearNodes(UseNodes(MaterialsNew(kept, id, "Light")))
      m1   == NodesNew(m0, Node("ShaderNodeOutputMaterial", 0))
      m2   == NodesNew(m1, Node("ShaderNodeEmission", 5))
  IN kept \cup { LinksNew(m2, 2, 1) }

\* the slots of the objects of list after the materials of table ids `gone`
\* were removed and the objects at the positions `hit` took material id in
\* every slot
Reslot(list, gone, hit, id) ==
  [i \in 1..Len(list) |->
     [list[i] EXCEPT !.material_slots =
        [s \in 1..Len(@) |->
           IF i \in hit THEN id
           ELSE IF @[s] \in gone THEN 0 ELSE @[s]]]]

\* the positions of the objects line 112 selects
SimulationOutputs(list) ==
  { i \in 1..Len(list) : Contains(list[i].name, "simulation_output") }

\* the positions of the objects line 289 selects
Lights(list) == { i \in 1..Len(list) : list[i].name = "assets/light" }

Ids(ms) == { m.id : m \in ms }

(***************************************************************************)
(* build_animation_from_obj_files, lines 215-256                           *)
(***************************************************************************)

\* range(obj_frame_end) with obj_frame_end = n - 1 (lines 223, 234)
LoopFrames(n) == 0..(n - 2)

\* the keyframes lines 241-251 insert at the frames of the loop: object i is
\* keyed hidden at frame f unless i = f
AnimationKeyframes(n) ==
  { [ob |-> i, frame |-> f, data_path |-> p, value |-> (i # f)] :
      i \in 0..(n - 1), f \in LoopFrames(n), p \in {"hide_viewport", "hide_render"} }

\* the hide flags the loop leaves on the objects: those of its last frame
AnimatedObjects(list) ==
  LET n == Len(list)
  IN IF LoopFrames(n) = {} THEN list
     ELSE [i \in 1..n |->
            [list[i] EXCEPT !.hide_viewport = (i - 1 # n - 2),
                            !.hide_render = (i - 1 # n - 2)]]

BuildAnimation ==
  /\ pc = "anim"
  /\ LET n == Len(objs)
     IN /\ scene' = [scene EXCEPT
                       !.frame_start = 0,
                       !.frame_end = n - 1,
                       !.frame_current = IF LoopFrames(n) = {} THEN @ ELSE n - 2]
        /\ keyframes' = keyframes \cup AnimationKeyframes(n)
        /\ calls' = [calls EXCEPT
                       !.keyframe_insert = @ + Cardinality(AnimationKeyframes(n)),
                       !.materials_new = @ + 1]
  \* line 256: set_material_for_collection(all_obj_objects)
  /\ materials' = HairTable(materials, nextId)
  /\ objs' = Reslot(AnimatedObjects(objs), Ids(MaterialsGet(materials, "Hair")),
                    SimulationOutputs(objs), nextId)
  /\ assetObjs' = Reslot(assetObjs, Ids(MaterialsGet(materials, "Hair")), {}, nextId)
  /\ nextId' = nextId + 1
  /\ pc' = "assets"
  /\ trace' = Append(trace, "animation")
  /\ UNCHANGED << argv, fsRoot, exc, exit_code, usage, cam_loc, cam_rot, paths,
                  camObj, saved >>

(***************************************************************************)
(* __main__, lines 334-341: the asset files                                *)
(***************************************************************************)

\* lines 334-339 on the result of os.listdir("assets")
AssetFilePaths(listing) ==
  LET names == FilterSuffix(listing, ".obj")
  IN [i \in 1..Len(names) |-> "assets/" \o names[i]]

\* boxes of the asset meshes as imported
AssetBox == << <<0, 0, 0>>, <<10, 10, 10>> >>

LoadAssets ==
  /\ pc = "assets"
  /\ \/ \* the assets directory is missing: os.listdir raises
        /\ Raise("FileNotFoundError")
        /\ UNCHANGED << assetObjs, calls, trace >>
     \/ \E S \in SUBSET AssetPool : \E listing \in Perms(S) :
          /\ assetObjs' = LoadObjFiles(AssetFilePaths(listing), AssetBox, 1)
          /\ calls' = [calls EXCEPT !.import_obj = @ + Len(AssetFilePaths(listing))]
          /\ pc' = "scale"
          /\ exc' = exc
          /\ trace' = Append(trace, "assets")
  /\ UNCHANGED << argv, fsRoot, exit_code, usage, cam_loc, cam_rot, paths, objs,
                  keyframes, scene, materials, nextId, camObj, saved >>

(***************************************************************************)
(* scale_assets, lines 152-179, and position_assets, lines 182-203         *)
(***************************************************************************)

\* faulty variant of IsBackdropAsset: a substring test
IsBackdropAssetSubstring(obj) == Contains(obj.data_name, "assets/backdrop")

\* the name tests of lines 172 and 199, and of lines 176 and 202
IsBackdropAsset(obj) == obj.data_name = "assets/backdrop"

IsLightAsset(obj) == obj.data_name = "assets/light"

\* v times the decimal constant k / 10, on values in tenths
Times(v, k) == (v * k) \div 10

\* lines 168-179 from asset i on: y is the local y, which the light branch rebinds
RECURSIVE ScaleLoop(_, _, _, _, _, _)
ScaleLoop(list, i, x, y, z, primary) ==
  IF i > Len(list) THEN list
  ELSE
    LET a0 == IF IsBackdropAsset(list[i])
                THEN [list EXCEPT ![i].dimensions =
                        <<Times(x, 30), Times(y, 25), Times(z, 15)>>]
                ELSE list
        isLight == IsLightAsset(list[i])
        y1 == IF isLight THEN primary.dimensions[2] ELSE y
        a1 == IF isLight
                THEN [a0 EXCEPT ![i].dimensions = <<Times(x, 5), y1, Times(z, 5)>>]
                ELSE a0
    IN ScaleLoop(a1, i + 1, x, y1, z, primary)

ScaleAssetsOf(all_obj_objects, all_asset_obj_objects) ==
  LET bb == all_obj_objects[1].bound_box
  IN ScaleLoop(all_asset_obj_objects, 1,
               Extent(bb, 1), Extent(bb, 2), Extent(bb, 3), all_obj_objects[1])

\* lines 197-203
PositionAssetsOf(all_obj_objects, all_asset_obj_objects) ==
  LET bb == all_obj_objects[1].bound_box
      x  == Extent(bb, 1)
      y  == Extent(bb, 2)
      z  == Extent(bb, 3)
      place(obj) ==
        LET b == IF IsBackdropAsset(obj)
                   THEN [obj EXCEPT !.location = <<Times(0 - x, 5), y, Times(z, 1)>>]
                   ELSE obj
        IN IF IsLightAsset(obj)
             THEN [b EXCEPT !.location = <<Times(0 - x, 5), y, Times(z, 12)>>]
             ELSE b
  IN [i \in 1..Len(all_asset_obj_objects) |-> place(all_asset_obj_objects[i])]

ScaleAssets ==
  /\ pc = "scale"
  /\ IF objs = <<>>
       THEN Raise("IndexError") /\ UNCHANGED << assetObjs, trace >>
       ELSE /\ assetObjs' = ScaleAssetsOf(objs, assetObjs)
            /\ pc' = "position"
            /\ exc' = exc
            /\ trace' = Append(trace, "scale")
  /\ UNCHANGED << argv, fsRoot, exit_code, usage, cam_loc, cam_rot, paths, objs,
                  keyframes, scene, materials, nextId, camObj, saved, calls >>

PositionAssets ==
  /\ pc = "position"
  /\ IF objs = <<>>
       THEN Raise("IndexError") /\ UNCHANGED << assetObjs, trace >>
       ELSE /\ assetObjs' = PositionAssetsOf(objs, assetObjs)
            /\ pc' = "emission"
            /\ exc' = exc
            /\ trace' = Append(trace, "position")
  /\ UNCHANGED << argv, fsRoot, exit_code, usage, cam_loc, cam_rot, paths, objs,
                  keyframes, scene, materials, nextId, camObj, saved, calls >>

(***************************************************************************)
(* make_emission_material, lines 259-291, called from line 349             *)
(***************************************************************************)

MakeEmission ==
  /\ pc = "emission"
  /\ materials' = LightTable(materials, nextId)
  /\ assetObjs' = Reslot(assetObjs, Ids(MaterialsGet(materials, "Light")), Lights(assetObjs), nextId)
  /\ objs' = Reslot(objs, Ids(MaterialsGet(materials, "Light")), {}, nextId)
  /\ nextId' = nextId + 1
  /\ calls' = [calls EXCEPT !.materials_new = @ + 1]
  /\ pc' = "camera"
  /\ trace' = Append(trace, "emission")
  /\ UNCHANGED << argv, fsRoot, exc, exit_code, usage, cam_loc, cam_rot, paths,
                  keyframes, scene, camObj, saved >>

(***************************************************************************)
(* place_camera, lines 206-212, called from line 352                       *)
(***************************************************************************)

\* the camera object of lines 207-212
CameraObject(id, loc, rot) ==
  [id |-> id, name |-> "Camera", location |-> loc, rotation_euler |-> rot]

PlaceCamera ==
  /\ pc = "camera"
  /\ camObj' = Append(camObj, CameraObject(nextId, cam_loc, cam_rot))
  /\ scene' = [scene EXCEPT !.camera = nextId]
  /\ nextId' = nextId + 1
  /\ calls' = [calls EXCEPT !.cameras_new = @ + 1]
  /\ pc' = "render"
  /\ trace' = Append(trace, "camera")
  /\ UNCHANGED << argv, fsRoot, exc, exit_code, usage, cam_loc, cam_rot, paths,
                  objs, assetObjs, keyframes, materials, saved >>

(***************************************************************************)
(* __main__, lines 355-367: render flags, the save, the end                *)
(***************************************************************************)

SetRender ==
  /\ pc = "render"
  /\ scene' = [scene EXCEPT !.engine = "CYCLES", !.device = "GPU"]
  /\ pc' = "save"
  /\ trace' = Append(trace, "render")
  /\ UNCHANGED << argv, fsRoot, exc, exit_code, usage, cam_loc, cam_rot, paths,
                  objs, assetObjs, keyframes, materials, nextId, camObj, saved, calls >>

\* faulty variant of SaveWanted: the flag is not looked at
SaveAlways(args) == TRUE

\* the condition of line 362
SaveWanted(args) == "-b" \in Range(args)

\* lines 362-367
Save ==
  /\ pc = "save"
  /\ IF SaveWanted(argv)
       THEN /\ saved' = Append(saved, "sim.blend")
            /\ calls' = [calls EXCEPT !.save = @ + 1]
            /\ trace' = Append(trace, "save")
       ELSE UNCHANGED << saved, calls, trace >>
  /\ pc' = "done"
  /\ UNCHANGED << argv, fsRoot, exc, exit_code, usage, cam_loc, cam_rot, paths,
                  objs, assetObjs, keyframes, scene, materials, nextId, camObj >>

Next ==
  \/ CheckSeparator
  \/ ParseOptions
  \/ NewScene
  \/ Fetch
  \/ LoadObjs
  \/ BuildAnimation
  \/ LoadAssets
  \/ ScaleAssets
  \/ PositionAssets
  \/ MakeEmission
  \/ PlaceCamera
  \/ SetRender
  \/ Save

Spec == Init /\ [][Next]_vars

(***************************************************************************)
(* The material builders called again in a session that already holds a    *)
(* scene (the docstring of set_material_for_collection, lines 80-82)       *)
(***************************************************************************)

\* the most calls of the builders in one session
MaxCalls == 4

SessionObject(name) == ImportedObject(name \o ".obj", AssetBox, 1)

InitSession ==
  /\ argv = <<"blender">>
  /\ fsRoot = {}
  /\ materials \in MaterialTables
  /\ nextId = FreshId(materials)
  /\ pc = "session"
  /\ exc = ""
  /\ exit_code = -1
  /\ usage = FALSE
  /\ cam_loc = <<>>
  /\ cam_rot = <<>>
  /\ paths = <<>>
  /\ objs \in { <<>>, <<SessionObject("sim/simulation_output_0000")>> }
  /\ assetObjs \in { <<>>, <<SessionObject("assets/light")>> }
  /\ keyframes = {}
  /\ scene = Scene0
  /\ camObj = <<>>
  /\ saved = <<>>
  /\ trace = <<>>
  /\ calls = NoCalls

\* set_material_for_collection(all_obj_objects), lines 74-114
SetMaterialForCollection ==
  /\ pc = "session"
  /\ calls.materials_new < MaxCalls
  /\ materials' = HairTable(materials, nextId)
  /\ objs' = Reslot(objs, Ids(MaterialsGet(materials, "Hair")), SimulationOutputs(objs), nextId)
  /\ assetObjs' = Reslot(assetObjs, Ids(MaterialsGet(materials, "Hair")), {}, nextId)
  /\ nextId' = nextId + 1
  /\ calls' = [calls EXCEPT !.materials_new = @ + 1]
  /\ trace' = Append(trace, "set_material")
  /\ UNCHANGED << argv, fsRoot, pc, exc, exit_code, usage, cam_loc, cam_rot, paths,
                  keyframes, scene, camObj, saved >>

\* make_emission_material(asset_objs), lines 259-291
MakeEmissionMaterial ==
  /\ pc = "session"
  /\ calls.materials_new < MaxCalls
  /\ materials' = LightTable(materials, nextId)
  /\ assetObjs' = Reslot(assetObjs, Ids(MaterialsGet(materials, "Light")), Lights(assetObjs), nextId)
  /\ objs' = Reslot(objs, Ids(MaterialsGet(materials, "Light")), {}, nextId)
  /\ nextId' = nextId + 1
  /\ calls' = [calls EXCEPT !.materials_new = @ + 1]
  /\ trace' = Append(trace, "make_emission")
  /\ UNCHANGED << argv, fsRoot, pc, exc, exit_code, usage, cam_loc, cam_rot, paths,
                  keyframes, scene, camObj, saved >>

NextSession ==
  \/ SetMaterialForCollection
  \/ MakeEmissionMaterial

SpecSession == InitSession /\ [][NextSession]_vars

(***************************************************************************)
(* Properties                                                              *)
(***************************************************************************)

Terminated == pc \in {"done", "raised", "exited"}

Did(step) == \E i \in 1..Len(trace) : trace[i] = step

\* the token after the first "--", or "" when there is none
RootArg ==
  IF "--" \in Range(argv) /\ IndexOf(argv, "--") + 2 <= Len(argv)
    THEN argv[IndexOf(argv, "--") + 2]
    ELSE ""

\* C1: when "--" is no token of argv the script prints the usage text and
\* exits with status 1, and no scene is created, no OBJ file imported, no
\* keyframe, material or camera created and no file saved.
C1_NoSeparatorExits ==
  "--" \notin Range(argv) =>
    /\ calls = NoCalls
    /\ objs = <<>> /\ assetObjs = <<>> /\ camObj = <<>> /\ saved = <<>>
    /\ scene = Scene0
    /\ pc \in {"start", "exited"}
    /\ pc = "exited" => usage /\ exit_code = 1 /\ exc = "SystemExit"

C1_Witness ==
  /\ "--" \notin Range(argv)
  /\ \E i \in 1..Len(argv) : Contains(argv[i], "--cam_loc")
  /\ pc = "exited"

\* C2: when "--" is the last token of argv the script prints the usage text
\* and exits with status 1 without creating a scene and without raising.
C2_SeparatorLastExits ==
  ("--" \in Range(argv) /\ IndexOf(argv, "--") = Len(argv) - 1) =>
    /\ calls.scene_new = 0
    /\ pc # "raised"
    /\ Terminated => pc = "exited" /\ usage /\ exit_code = 1

C4_MissingRootRaises ==
  (RootArg # "" /\ ~PathExists(RootArg)) =>
    /\ calls.import_obj = 0 /\ calls.keyframe_insert = 0
    /\ calls.materials_new = 0 /\ calls.cameras_new = 0 /\ calls.save = 0
    /\ objs = <<>> /\ assetObjs = <<>> /\ keyframes = {} /\ camObj = <<>>
    /\ saved = <<>>
    /\ pc \in {"start", "parse", "scene", "fetch", "raised"}
    /\ (pc = "raised" /\ Did("scene")) => exc = "RuntimeError"

C4_Witness ==
  /\ RootArg = "gone"
  /\ "-b" \in Range(argv)
  /\ pc = "raised" /\ exc = "RuntimeError"

\* the extents of the first primary mesh, read off two opposite corners
BoxExtent(k) == objs[1].bound_box[7][k] - objs[1].bound_box[1][k]

HasAsset(name) == \E i \in 1..Len(assetObjs) : assetObjs[i].data_name = name

HairBuilt == Did("animation") \/ Did("set_material")

LightBuilt == Did("emission") \/ Did("make_emission")

\* exactly one material of table mats has the name, and its node graph is the
\* shader node and the output node joined by one link from shader to output
OneFreshMaterial(mats, name, shader) ==
  LET ms == { m \in mats : m.name = name } IN
  /\ Cardinality(ms) = 1
  /\ \A m \in ms :
       /\ m.use_nodes
       /\ Len(m.nodes) = 2
       /\ { m.nodes[i].type : i \in 1..2 } = { shader, "ShaderNodeOutputMaterial" }
       /\ Cardinality(m.links) = 1
       /\ \A l \in m.links :
            /\ m.nodes[l[1]].type = shader
            /\ m.nodes[l[2]].type = "ShaderNodeOutputMaterial"

\* the materials of other names are the same before and after the step, and
\* the material of that name after the step is a new data block
OthersUntouched(name) ==
  /\ { m \in materials' : m.name # name } = { m \in materials : m.name # name }
  /\ \A m \in materials' : m.name = name => m.id \notin Ids(materials)

\* C6: after one or more calls of set_material_for_collection exactly one
\* material named "Hair" exists, and after one or more calls of
\* make_emission_material exactly one named "Light"; each has a fresh node
\* graph of two nodes (shader, output) and one link; each call leaves the
\* materials of other names untouched.
C6_MaterialIdempotent ==
  [][ /\ HairBuilt' => OneFreshMaterial(materials', "Hair", "ShaderNodeBsdfHairPrincipled")
      /\ LightBuilt' => OneFreshMaterial(materials', "Light", "ShaderNodeEmission")
      /\ trace' = Append(trace, "set_material") => OthersUntouched("Hair")
      /\ trace' = Append(trace, "make_emission") => OthersUntouched("Light")
    ]_vars

C6_Witness ==
  /\ trace = <<"set_material", "make_emission", "set_material", "make_emission">>
  /\ OtherMat \in materials
  /\ Cardinality(materials) = 3
  /\ StaleHair \notin materials /\ StaleLight \notin materials

FullRun ==
  << "options", "scene", "fetch", "load", "animation", "assets", "scale",
     "position", "emission", "camera", "render" >>

\* C7: the scene file is saved at most once, only when "-b" is in argv, and
\* only as the last operation of a run in which every earlier step completed;
\* a completed run with "-b" saves, a run without "-b" and a run that aborts
\* never save.
C7_SaveOnceLast ==
  /\ calls.save <= 1
  /\ Len(saved) = calls.save
  /\ calls.save = 1 =>
       /\ "-b" \in Range(argv)
       /\ trace = Append(FullRun, "save")
       /\ pc = "done"
       /\ scene.engine = "CYCLES" /\ scene.device = "GPU" /\ scene.camera # 0
  /\ (pc = "done" /\ "-b" \in Range(argv)) => calls.save = 1
  /\ (pc = "done" /\ "-b" \notin Range(argv)) => trace = FullRun
  /\ "-b" \notin Range(argv) => calls.save = 0
  /\ pc \in {"raised", "exited"} => calls.save = 0

C7_Witness ==
  /\ pc = "done"
  /\ saved = <<"sim.blend">>
  /\ HasAsset("assets/light")

\* the values the options name, written out: lengths in tenths, angles in 1e-4 rad
ExpectedLoc ==
  IF "--cam_loc=1,2,3" \in Range(argv) THEN <<10, 20, 30>>
  ELSE IF "--cam_loc=-4,0.5,6" \in Range(argv) THEN <<-40, 5, 60>>
  ELSE <<-320, 1615, 730>>

ExpectedRot ==
  IF "--cam_rot=90,0,180" \in Range(argv) THEN <<15708, 0, 31416>>
  ELSE <<13090, 0, 31416>>

\* C8: after a run that completes the scene's camera is the object made by
\* place_camera, at the location and rotation (degrees converted to radians)
\* the options after "--" give; an absent option falls back to its default,
\* (-32, 161.5, 73) and (75, 0, 180) degrees, whatever the other option is.
C8_CameraFromOptions ==
  pc = "done" =>
    /\ Len(camObj) = 1
    /\ scene.camera = camObj[1].id
    /\ camObj[1].location = ExpectedLoc
    /\ camObj[1].rotation_euler = ExpectedRot

C8_Witness ==
  /\ pc = "done"
  /\ "--cam_loc=-4,0.5,6" \in Range(argv)
  /\ \A i \in 1..Len(argv) : ~Contains(argv[i], "--cam_rot")
  /\ camObj[1].location = <<-40, 5, 60>>

\* C9: after build_animation_from_obj_files on n >= 1 objects the frame range
\* is 0 .. n-1 and at every frame f of it, the last included, keyframes make
\* object f the only visible one.
C9_EveryFrameKeyed ==
  (Did("animation") /\ Len(objs) >= 1) =>
    /\ scene.frame_start = 0
    /\ scene.frame_end = Len(objs) - 1
    /\ \A f \in 0..(Len(objs) - 1), i \in 0..(Len(objs) - 1),
         p \in {"hide_viewport", "hide_render"} :
         [ob |-> i, frame |-> f, data_path |-> p, value |-> (i # f)] \in keyframes

\* C10: after scale_assets the backdrop's dimensions are (3x, 2.5y, 1.5z) of
\* the bounding-box extents, wherever the light stands in the asset list and
\* whatever the primary mesh's dimensions are.
C10_BackdropFromBoundingBox ==
  Did("scale") =>
    \A i \in 1..Len(assetObjs) :
      assetObjs[i].data_name = "assets/backdrop" =>
        assetObjs[i].dimensions =
          << 3 * BoxExtent(1), (25 * BoxExtent(2)) \div 10, (15 * BoxExtent(3)) \div 10 >>

====
